---- MODULE Spec2Model ----
(***************************************************************************)
(* A model of rust_forth: the stack machine of src/stack_machine.rs and    *)
(* the incremental Forth compiler of src/forth_compiler.rs.                *)
(*                                                                         *)
(* Two specifications share the execution engine:                          *)
(*   SpecVM  a host loads a bytecode image, primes the operand stack,      *)
(*           registers trap handlers and calls StackMachine::execute;      *)
(*   Spec    a host calls ForthCompiler::execute_string on source text.    *)
(* One Step is one iteration of the loop of StackMachine::execute.         *)
(***************************************************************************)
EXTENDS Integers, Sequences, FiniteSets, TLC

VARIABLES
    opcodes,         \* StackMachineState.opcodes, the bytecode image
    number_stack,    \* StackMachineState.number_stack, top is the last element
    return_stack,    \* StackMachineState.return_stack
    pc,              \* StackMachineState.pc
    gas_used,        \* StackMachineState.gas_used
    trap_handlers,   \* StackMachine.trap_handlers, in registration order
    word_addresses,  \* ForthCompiler.word_addresses
    last_function,   \* ForthCompiler.last_function, the high-water mark
    phase,           \* "idle" between calls, "running" inside execute, "aborted" after a panic
    result,          \* what the last call returned: "None" before any call
    payload,         \* the String the returned ForthError carries, "" if none
    gas_limit,       \* the gas_limit argument of the current run
    src,             \* the source words of the last execute_string call
    calls,           \* number of execute / execute_string calls made so far
    executed,        \* history: opcodes fetched by the current run
    trace,           \* history: the program counters fetched by the current run
    consulted,       \* history: indices of the handlers invoked by the last TRAP
    entry            \* history: what the call found on entry

vars == <<opcodes, number_stack, return_stack, pc, gas_used, trap_handlers,
          word_addresses, last_function, phase, result, payload, gas_limit, src,
          calls, executed, trace, consulted, entry>>

----------------------------------------------------------------------------
(* Integer widths *)

\* TLC computes with 32-bit integers, so the machine word is scaled: the
\* model's i64 has 30 bits and its usize 31, with the same wrap-around rules.
I64Max == 536870911
I64Min == -I64Max - 1
I64Modulus == 2 * (I64Max + 1)
UsizeMax == 2147483647

InI64(v) == I64Min <= v /\ v <= I64Max

\* two's-complement wrap of an i64 result, what a release build computes
WrapI64(v) == ((v - I64Min) % I64Modulus) + I64Min

\* `x as usize`: a negative value becomes a huge index
AsUsize(x) == IF x >= 0 THEN x ELSE (UsizeMax + x) + 1

\* Rust's integer division truncates toward zero
TruncDiv(x, y) ==
    LET ax == IF x < 0 THEN -x ELSE x
        ay == IF y < 0 THEN -y ELSE y
        q  == ax \div ay
    IN IF (x < 0) = (y < 0) THEN q ELSE -q

----------------------------------------------------------------------------
(* Opcodes *)

\* GasLimit
Unlimited == [limited |-> FALSE, x |-> 0]
Limited(n) == [limited |-> TRUE, x |-> n]

Op(name) == [op |-> name, arg |-> 0]
LDI(n) == [op |-> "LDI", arg |-> n]

JMP == Op("JMP")
JR == Op("JR")
JRZ == Op("JRZ")
JRNZ == Op("JRNZ")
CALL == Op("CALL")
CMPZ == Op("CMPZ")
CMPNZ == Op("CMPNZ")
POP == Op("POP")
SWAP == Op("SWAP")
RET == Op("RET")
ADD == Op("ADD")
SUB == Op("SUB")
MUL == Op("MUL")
DIV == Op("DIV")
NOT == Op("NOT")
DUP == Op("DUP")
TRAP == Op("TRAP")
NOP == Op("NOP")

----------------------------------------------------------------------------
(* Trap handlers *)

\* A TrapHandler: the id it handles and its closure.  The closure pops
\* `pops` values, pushes `pushes` and returns `ret`, as the closures of the
\* tests do (pop one value, push a result, Handled).
Handler(id, pops, pushes, ret) ==
    [handled_trap |-> id, pops |-> pops, pushes |-> pushes, ret |-> ret]

\* to_run: a pop of an empty stack makes the closure return the error
to_run(h, stack) ==
    IF Len(stack) < h.pops
    THEN [ret |-> "NumberStackUnderflow", stack |-> <<>>]
    ELSE [ret |-> h.ret,
          stack |-> SubSeq(stack, 1, Len(stack) - h.pops) \o h.pushes]

\* TrapHandler::handle_trap
handle_trap(h, trap_number, stack) ==
    IF trap_number = h.handled_trap
    THEN to_run(h, stack)
    ELSE [ret |-> "NotHandled", stack |-> stack]

\* the handler loop of the TRAP arm: consult handlers[i..] in order
RECURSIVE RunHandlersRev(_, _, _, _, _)
RunHandlersRev(handlers, i, trap_id, stack, seen) ==
    IF i < 1
    THEN [ret |-> "UnhandledTrap", stack |-> stack, consulted |-> seen]
    ELSE LET r == handle_trap(handlers[i], trap_id, stack)
         IN IF r.ret = "NotHandled"
            THEN RunHandlersRev(handlers, i - 1, trap_id, r.stack, Append(seen, i))
            ELSE [ret |-> r.ret, stack |-> r.stack, consulted |-> Append(seen, i)]

RECURSIVE RunHandlers(_, _, _, _, _)
RunHandlers(handlers, i, trap_id, stack, seen) ==
    IF i > Len(handlers)
    THEN [ret |-> "UnhandledTrap", stack |-> stack, consulted |-> seen]
    ELSE LET r == handle_trap(handlers[i], trap_id, stack)
         IN IF r.ret = "NotHandled"
            THEN RunHandlers(handlers, i + 1, trap_id, r.stack, Append(seen, i))
            ELSE [ret |-> r.ret, stack |-> r.stack, consulted |-> Append(seen, i)]

\* mutant: the chain is walked from the last registered handler
TrapChainReversed(handlers, trap_id, stack) ==
    RunHandlersRev(handlers, Len(handlers), trap_id, stack, <<>>)

\* mutant: a trap nobody handled is ignored
TrapChainLenient(handlers, trap_id, stack) ==
    LET r == RunHandlers(handlers, 1, trap_id, stack, <<>>)
    IN IF r.ret = "UnhandledTrap" THEN [r EXCEPT !.ret = "Handled"] ELSE r

TrapChain(handlers, trap_id, stack) ==
    RunHandlers(handlers, 1, trap_id, stack, <<>>)

----------------------------------------------------------------------------
(* One iteration of the loop of StackMachine::execute *)

\* A machine state inside execute: done is "" while the loop goes on
MachineState ==
    [number_stack |-> number_stack, return_stack |-> return_stack, pc |-> pc,
     gas_used |-> gas_used, done |-> "", consulted |-> consulted]

Top(s) == s[Len(s)]
Pop1(s) == SubSeq(s, 1, Len(s) - 1)
Pop2(s) == SubSeq(s, 1, Len(s) - 2)

Halt(st, how) == [st EXCEPT !.done = how]

\* mutant: the budget is exhausted one instruction early
GasExceededEarly(used, limit) == limit.limited /\ used >= limit.x

\* mutant: the budget is never looked at
GasExceededNever(used, limit) == FALSE

\* the gas check at the end of the loop body
GasExceeded(used, limit) == limit.limited /\ used > limit.x

\* mutant: an opcode that set the program counter itself is not charged
LoopTailJumpsFree(st, pc_reset, limit) ==
    LET st1 == IF pc_reset THEN st ELSE [st EXCEPT !.pc = @ + 1]
        st2 == IF pc_reset THEN st1 ELSE [st1 EXCEPT !.gas_used = @ + 1]
    IN IF GasExceeded(st2.gas_used, limit) THEN Halt(st2, "RanOutOfGas") ELSE st2

\* the tail of the loop body: pc += 1 unless pc_reset, then the gas accounting
LoopTail(st, pc_reset, limit) ==
    LET st1 == IF pc_reset THEN st ELSE [st EXCEPT !.pc = @ + 1]
        st2 == [st1 EXCEPT !.gas_used = @ + 1]
    IN IF GasExceeded(st2.gas_used, limit) THEN Halt(st2, "RanOutOfGas") ELSE st2

\* mutant: a negative target wraps around like `as usize`
RelativeTargetWrapping(st, new_offset, limit) ==
    LoopTail([st EXCEPT !.pc = IF new_offset < 0 THEN 0 ELSE new_offset], TRUE, limit)

\* usize::try_from(new_offset).unwrap()
RelativeTarget(st, new_offset, limit) ==
    IF new_offset < 0 \/ new_offset > UsizeMax
    THEN Halt(st, "Panic")
    ELSE LoopTail([st EXCEPT !.pc = new_offset], TRUE, limit)

\* an i64 result: overflow panics in a debug build and wraps in a release build
Arith(st, rest, v, limit) ==
    IF InI64(v)
    THEN {LoopTail([st EXCEPT !.number_stack = Append(rest, v)], FALSE, limit)}
    ELSE {Halt([st EXCEPT !.number_stack = rest], "Panic"),
          LoopTail([st EXCEPT !.number_stack = Append(rest, WrapI64(v))], FALSE, limit)}

\* mutant: the operands already popped are put back when the opcode fails
UnderflowRestoring(st) == {Halt(st, "NumberStackUnderflow")}

\* a pop of the empty stack: whatever the opcode popped before is gone
Underflow(st) == {Halt([st EXCEPT !.number_stack = <<>>], "NumberStackUnderflow")}

\* pops one value and continues with Body(x, rest)
ExecJMP(st, limit) ==
    LET s == st.number_stack
    IN IF Len(s) < 1 THEN Underflow(st)
       ELSE {LoopTail([st EXCEPT !.pc = AsUsize(Top(s)), !.number_stack = Pop1(s)],
                      TRUE, limit)}

\* mutant: the program counter is incremented after the relative jump
ExecJRThenIncrement(st, limit) ==
    LET s == st.number_stack
    IN IF Len(s) < 1 THEN Underflow(st)
       ELSE {RelativeTarget([st EXCEPT !.number_stack = Pop1(s)], st.pc + Top(s) + 1, limit)}

ExecJR(st, limit) ==
    LET s == st.number_stack
    IN IF Len(s) < 1 THEN Underflow(st)
       ELSE {RelativeTarget([st EXCEPT !.number_stack = Pop1(s)], st.pc + Top(s), limit)}

ExecCALL(st, limit) ==
    LET s == st.number_stack
        st1 == [st EXCEPT !.return_stack = Append(@, st.pc + 1)]
    IN IF Len(s) < 1 THEN Underflow(st1)
       ELSE {LoopTail([st1 EXCEPT !.pc = AsUsize(Top(s)), !.number_stack = Pop1(s)],
                      TRUE, limit)}

ExecCMPZ(st, limit) ==
    LET s == st.number_stack
    IN IF Len(s) < 1 THEN Underflow(st)
       ELSE {LoopTail([st EXCEPT !.number_stack =
                          Append(Pop1(s), IF Top(s) = 0 THEN 0 ELSE -1)], FALSE, limit)}

\* mutant: CMPNZ computes what CMPZ computes
ExecCMPNZSame(st, limit) == ExecCMPZ(st, limit)

ExecCMPNZ(st, limit) ==
    LET s == st.number_stack
    IN IF Len(s) < 1 THEN Underflow(st)
       ELSE {LoopTail([st EXCEPT !.number_stack =
                          Append(Pop1(s), IF Top(s) = 0 THEN -1 ELSE 0)], FALSE, limit)}

\* mutant: the test value is popped first, the offset second
ExecJRcondValueFirst(st, on_zero, limit) ==
    LET s == st.number_stack
    IN IF Len(s) < 2 THEN Underflow(st)
       ELSE LET new_offset == st.pc + s[Len(s) - 1]
                x == Top(s)
                st1 == [st EXCEPT !.number_stack = Pop2(s)]
            IN IF (x = 0) = on_zero
               THEN {RelativeTarget(st1, new_offset, limit)}
               ELSE {LoopTail(st1, FALSE, limit)}

\* JRZ (on_zero) and JRNZ: the offset is popped first, the test value second
ExecJRcond(st, on_zero, limit) ==
    LET s == st.number_stack
    IN IF Len(s) < 2 THEN Underflow(st)
       ELSE LET new_offset == st.pc + Top(s)
                x == s[Len(s) - 1]
                st1 == [st EXCEPT !.number_stack = Pop2(s)]
            IN IF (x = 0) = on_zero
               THEN {RelativeTarget(st1, new_offset, limit)}
               ELSE {LoopTail(st1, FALSE, limit)}

\* mutant: the immediate value is put under the stack
ExecLDIUnder(st, x, limit) ==
    {LoopTail([st EXCEPT !.number_stack = <<x>> \o @], FALSE, limit)}

ExecLDI(st, x, limit) ==
    {LoopTail([st EXCEPT !.number_stack = Append(@, x)], FALSE, limit)}

ExecPOP(st, limit) ==
    LET s == st.number_stack
    IN IF Len(s) < 1 THEN Underflow(st)
       ELSE {LoopTail([st EXCEPT !.number_stack = Pop1(s)], FALSE, limit)}

ExecRET(st, limit) ==
    LET r == st.return_stack
    IN IF Len(r) = 0 THEN {Halt(st, "Ok")}
       ELSE {LoopTail([st EXCEPT !.pc = Top(r), !.return_stack = Pop1(r)], TRUE, limit)}

\* mutant: the operands in the textbook Forth order
OperandsTextbook(s) == [x |-> s[Len(s) - 1], y |-> Top(s)]

\* the two pops of a binary opcode: x is the top, y the element below it
Operands(s) == [x |-> Top(s), y |-> s[Len(s) - 1]]

\* ADD, SUB, MUL, DIV: x is popped first, y second, x op y is pushed
ExecBinary(st, name, limit) ==
    LET s == st.number_stack
    IN IF Len(s) < 2 THEN Underflow(st)
       ELSE LET x == Operands(s).x
                y == Operands(s).y
                rest == Pop2(s)
            IN CASE name = "ADD" -> Arith(st, rest, x + y, limit)
                 [] name = "SUB" -> Arith(st, rest, x - y, limit)
                 [] name = "MUL" -> Arith(st, rest, x * y, limit)
                 [] name = "DIV" ->
                      IF y = 0 \/ (x = I64Min /\ y = -1)
                      THEN {Halt([st EXCEPT !.number_stack = rest], "Panic")}
                      ELSE Arith(st, rest, TruncDiv(x, y), limit)

ExecNOT(st, limit) ==
    LET s == st.number_stack
    IN IF Len(s) < 1 THEN Underflow(st)
       ELSE {LoopTail([st EXCEPT !.number_stack = Append(Pop1(s), -Top(s) - 1)],
                      FALSE, limit)}

ExecDUP(st, limit) ==
    LET s == st.number_stack
    IN IF Len(s) < 1 THEN Underflow(st)
       ELSE {LoopTail([st EXCEPT !.number_stack = Append(s, Top(s))], FALSE, limit)}

ExecSWAP(st, limit) ==
    LET s == st.number_stack
    IN IF Len(s) < 2 THEN Underflow(st)
       ELSE {LoopTail([st EXCEPT !.number_stack =
                          Pop2(s) \o <<Top(s), s[Len(s) - 1]>>], FALSE, limit)}

\* TRAP: pop the id, walk the chain; Handled returns Ok(()) from execute,
\* an error of a handler is returned as it is, otherwise UnhandledTrap
ExecTRAP(st, handlers, limit) ==
    LET s == st.number_stack
    IN IF Len(s) < 1 THEN Underflow(st)
       ELSE LET r == TrapChain(handlers, Top(s), Pop1(s))
                st1 == [st EXCEPT !.number_stack = r.stack, !.consulted = r.consulted]
            IN IF r.ret = "Handled" THEN {Halt(st1, "Ok")} ELSE {Halt(st1, r.ret)}

\* the match on self.st.opcodes[self.st.pc]; the index panics out of bounds
LoopBody(image, st, handlers, limit) ==
    IF st.pc >= Len(image)
    THEN {Halt(st, "Panic")}
    ELSE LET o == image[st.pc + 1]
         IN CASE o.op = "JMP"   -> ExecJMP(st, limit)
              [] o.op = "JR"    -> ExecJR(st, limit)
              [] o.op = "CALL"  -> ExecCALL(st, limit)
              [] o.op = "CMPZ"  -> ExecCMPZ(st, limit)
              [] o.op = "CMPNZ" -> ExecCMPNZ(st, limit)
              [] o.op = "JRZ"   -> ExecJRcond(st, TRUE, limit)
              [] o.op = "JRNZ"  -> ExecJRcond(st, FALSE, limit)
              [] o.op = "LDI"   -> ExecLDI(st, o.arg, limit)
              [] o.op = "POP"   -> ExecPOP(st, limit)
              [] o.op = "RET"   -> ExecRET(st, limit)
              [] o.op \in {"ADD", "SUB", "MUL", "DIV"} -> ExecBinary(st, o.op, limit)
              [] o.op = "NOT"   -> ExecNOT(st, limit)
              [] o.op = "DUP"   -> ExecDUP(st, limit)
              [] o.op = "SWAP"  -> ExecSWAP(st, limit)
              [] o.op = "TRAP"  -> ExecTRAP(st, handlers, limit)
              [] o.op = "NOP"   -> {LoopTail(st, FALSE, limit)}

----------------------------------------------------------------------------
(* Tokens *)

Number(n) == [type |-> "Number", s |-> "", n |-> n]
Command(s) == [type |-> "Command", s |-> s, n |-> 0]
Colon(s) == [type |-> "Colon", s |-> s, n |-> 0]
SemiColon == [type |-> "SemiColon", s |-> "", n |-> 0]

\* str::parse::<i64> on the numerals the sources use; any other word fails
NumeralValue ==
    [w \in {"0", "1", "2", "3", "4", "5", "6", "7", "9", "-1", "50", "100", "123", "321"} |->
        CASE w = "0" -> 0 [] w = "1" -> 1 [] w = "2" -> 2 [] w = "3" -> 3
          [] w = "4" -> 4 [] w = "5" -> 5 [] w = "6" -> 6 [] w = "7" -> 7
          [] w = "9" -> 9 [] w = "-1" -> -1 [] w = "50" -> 50 [] w = "100" -> 100
          [] w = "123" -> 123 [] w = "321" -> 321]

\* mutant: a numeral after `:` is not taken as the name
colon_token_checked(next_token) ==
    IF next_token \in DOMAIN NumeralValue
    THEN Number(NumeralValue[next_token])
    ELSE Colon(next_token)

\* the word after `:` becomes the name, whatever it is
colon_token(next_token) == Colon(next_token)

\* tokenize_string over the words split_whitespace yields
RECURSIVE tokenize_string(_, _, _)
tokenize_string(words, i, tv) ==
    IF i > Len(words)
    THEN [err |-> "", msg |-> "", tv |-> tv]
    ELSE LET w == words[i]
         IN IF w \in DOMAIN NumeralValue
            THEN tokenize_string(words, i + 1, Append(tv, Number(NumeralValue[w])))
            ELSE IF w = ":"
            THEN IF i + 1 > Len(words)
                 THEN [err |-> "InvalidSyntax",
                       msg |-> "No token after :, but one needed to compile", tv |-> tv]
                 ELSE tokenize_string(words, i + 2, Append(tv, colon_token(words[i + 1])))
            ELSE IF w = ";"
            THEN tokenize_string(words, i + 1, Append(tv, SemiColon))
            ELSE tokenize_string(words, i + 1, Append(tv, Command(w)))

----------------------------------------------------------------------------
(* The compiler *)

\* ForthCompiler::new: the intrinsic table
intrinsic_words ==
    [w \in {"POP", "SWAP", "ADD", "SUB", "MUL", "DIV", "DUP", "TRAP", "INC", "DEC"} |->
        CASE w = "POP" -> <<POP>> [] w = "SWAP" -> <<SWAP>> [] w = "ADD" -> <<ADD>>
          [] w = "SUB" -> <<SUB>> [] w = "MUL" -> <<MUL>> [] w = "DIV" -> <<DIV>>
          [] w = "DUP" -> <<DUP>> [] w = "TRAP" -> <<TRAP>>
          [] w = "INC" -> <<LDI(1), ADD>> [] w = "DEC" -> <<LDI(-1), ADD>>]

\* DeferredIfStatement; else_location is -1 for None
DeferredIfStatement(if_location) ==
    [if_location |-> if_location, else_location |-> -1]

\* Vec::resize(n, NOP)
Resize(v, n) ==
    IF n <= Len(v) THEN SubSeq(v, 1, n)
    ELSE v \o [k \in 1..(n - Len(v)) |-> NOP]

\* mutant: a name found in neither table compiles to nothing
ResolveCommandLenient(s, wa) ==
    IF s \in DOMAIN wa
    THEN [err |-> "", code |-> <<LDI(wa[s]), CALL>>]
    ELSE IF s \in DOMAIN intrinsic_words
    THEN [err |-> "", code |-> intrinsic_words[s]]
    ELSE [err |-> "", code |-> <<>>]

\* mutant: the table of intrinsics is consulted before the Word Table
ResolveCommandIntrinsicFirst(s, wa) ==
    IF s \in DOMAIN intrinsic_words
    THEN [err |-> "", code |-> intrinsic_words[s]]
    ELSE IF s \in DOMAIN wa
    THEN [err |-> "", code |-> <<LDI(wa[s]), CALL>>]
    ELSE [err |-> "UnknownToken", code |-> <<>>]

\* the default Command arm: the Word Table first, then the intrinsics
ResolveCommand(s, wa) ==
    IF s \in DOMAIN wa
    THEN [err |-> "", code |-> <<LDI(wa[s]), CALL>>]
    ELSE IF s \in DOMAIN intrinsic_words
    THEN [err |-> "", code |-> intrinsic_words[s]]
    ELSE [err |-> "UnknownToken", code |-> <<>>]

\* mutant: the offset is counted from the placeholder, not from the jump
if_jump_offset_from_placeholder(current_instruction, x) ==
    IF x.else_location = -1
    THEN current_instruction - x.if_location
    ELSE (current_instruction - x.else_location) + 1

\* the THEN arm: the payload written into the IF placeholder
if_jump_offset(current_instruction, x) ==
    IF x.else_location = -1
    THEN current_instruction - (x.if_location + 1)
    ELSE (current_instruction - x.else_location) + 1

\* the THEN arm: the payload written into the ELSE placeholder
else_jump_offset(current_instruction, x) ==
    current_instruction - (x.else_location + 1)

\* the THEN arm: patch tv[if_location] and, with an ELSE, tv[else_location]
PatchThen(tv, x) ==
    LET current_instruction == Len(tv)
        tv1 == [tv EXCEPT ![x.if_location + 1] =
                    LDI(if_jump_offset(current_instruction, x))]
    IN IF x.else_location = -1 THEN tv1
       ELSE [tv1 EXCEPT ![x.else_location + 1] =
                    LDI(else_jump_offset(current_instruction, x))]

\* mutant: THEN closes the IF that was opened first
pop_oldest(dis) == [x |-> dis[1], rest |-> SubSeq(dis, 2, Len(dis))]

\* deferred_if_statements.pop()
pop(dis) == [x |-> Top(dis), rest |-> Pop1(dis)]

\* mutant: an ELSE or a THEN that finds no open IF is skipped
WithoutIfIgnored(c, msg) == c

\* the else branch of `if let Some(x) = deferred_if_statements...`
WithoutIf(c, msg) == [c EXCEPT !.err = "InvalidSyntax", !.msg = msg]

\* one turn of the token loop of compile_token_vector: c is [err, msg, tv,
\* dis], dis the deferred_if_statements
compile_token(t, wa, c) ==
    LET current_instruction == Len(c.tv)
    IN CASE t.type = "Number" -> [c EXCEPT !.tv = Append(@, LDI(t.n))]
         [] t.type = "Command" /\ t.s = "IF" ->
              [c EXCEPT !.dis = Append(@, DeferredIfStatement(current_instruction)),
                        !.tv = @ \o <<LDI(0), JRNZ>>]
         [] t.type = "Command" /\ t.s = "ELSE" ->
              IF Len(c.dis) = 0
              THEN WithoutIf(c, "ELSE without IF")
              ELSE [c EXCEPT !.dis[Len(c.dis)].else_location = current_instruction,
                             !.tv = @ \o <<LDI(0), JR>>]
         [] t.type = "Command" /\ t.s = "THEN" ->
              IF Len(c.dis) = 0
              THEN WithoutIf(c, "THEN without IF")
              ELSE [c EXCEPT !.dis = pop(c.dis).rest, !.tv = PatchThen(@, pop(c.dis).x)]
         [] t.type = "Command" /\ t.s \notin {"IF", "ELSE", "THEN"} ->
              LET r == ResolveCommand(t.s, wa)
              IN IF r.err # "" THEN [c EXCEPT !.err = r.err, !.msg = t.s]
                 ELSE [c EXCEPT !.tv = @ \o r.code]
         [] t.type \in {"Colon", "SemiColon"} -> [c EXCEPT !.err = "Panic"]

\* the token loop, left at the first error (c0 is evaluated once, as c)
RECURSIVE compile_tokens(_, _, _, _)
compile_tokens(token_vector, i, wa, c0) ==
    CHOOSE r \in
        { IF i > Len(token_vector) \/ c.err # ""
          THEN c
          ELSE compile_tokens(token_vector, i + 1, wa,
                              compile_token(token_vector[i], wa, c)) : c \in {c0} } : TRUE

\* mutant: an IF still open after the last token is a syntax error
return_tv_checked(c) ==
    IF c.err = "" /\ c.dis # <<>>
    THEN [c EXCEPT !.err = "InvalidSyntax", !.msg = "IF without THEN"]
    ELSE c

\* the end of compile_token_vector, `return Ok(tv)`: deferred_if_statements
\* goes out of scope without being looked at
return_tv(c) == c

compile_token_vector(token_vector, wa) ==
    return_tv(compile_tokens(token_vector, 1, wa,
                             [err |-> "", msg |-> "", tv |-> <<>>, dis |-> <<>>]))

\* token_vector[a..b] with 0-based, end-exclusive bounds; a > b panics
Slice(token_vector, a, b) == SubSeq(token_vector, a + 1, b)

\* mutant: a redefinition reuses the slot of the word it replaces
function_start_reuse(name, wa, lf) == IF name \in DOMAIN wa THEN wa[name] ELSE lf

\* where a committed body is placed: at the end of the last function
function_start(name, wa, lf) == lf

\* mutant: the mark is advanced by the length of the body without its RET
advance_without_ret(lf, tvc) == (lf + Len(tvc)) - 1

\* self.last_function += tvc.len()
\* mutant: the mark is put one past the RET
advance_past(lf, tvc) == lf + Len(tvc) + 1

advance(lf, tvc) == lf + Len(tvc)

\* mutant: the name is recorded before the body is compiled
CommitDefinitionEager(k, name, body) ==
    LET image == Resize(k.opcodes, k.last_function)
        r == compile_token_vector(body, k.word_addresses)
        tvc == Append(r.tv, RET)
        start == function_start(name, k.word_addresses, k.last_function)
        table == [n \in DOMAIN k.word_addresses \cup {name} |->
                     IF n = name THEN start ELSE k.word_addresses[n]]
    IN IF r.err # ""
       THEN [k EXCEPT !.err = r.err, !.msg = r.msg, !.opcodes = image,
                      !.word_addresses = table]
       ELSE [k EXCEPT !.opcodes = SubSeq(image, 1, start) \o tvc,
                      !.last_function = advance(k.last_function, tvc),
                      !.word_addresses = table]

\* the SemiColon arm in Compiling mode: truncate, compile the body, append
\* RET, place it at last_function, record the name.  k is the compiler
\* [err, msg, opcodes, last_function, word_addresses]
CommitDefinition(k, name, body) ==
    LET image == Resize(k.opcodes, k.last_function)
        r == compile_token_vector(body, k.word_addresses)
        tvc == Append(r.tv, RET)
        start == function_start(name, k.word_addresses, k.last_function)
    IN IF r.err # ""
       THEN [k EXCEPT !.err = r.err, !.msg = r.msg, !.opcodes = image]
       ELSE [k EXCEPT !.opcodes = SubSeq(image, 1, start) \o tvc,
                      !.last_function = advance(k.last_function, tvc),
                      !.word_addresses =
                          [n \in DOMAIN @ \cup {name} |-> IF n = name THEN start ELSE @[n]]]

\* one turn of the for loop of compile_token_vector_strip_word_definitions;
\* g is [k, segment_start, segment_stop, mode], mode <<>> is Interpreting
\* and <<name>> is Compiling(name)
\* mutant: a Colon inside a definition starts the definition over
ColonArmRestart(g, i, s) == [g EXCEPT !.segment_start = i, !.mode = <<s>>]

\* the Colon arm: a definition starts, unless one is open
ColonArm(g, i, s) ==
    IF g.mode = <<>>
    THEN [g EXCEPT !.segment_start = i, !.mode = <<s>>]
    ELSE [g EXCEPT !.k.err = "InvalidSyntax", !.k.msg = "Second colon before semicolon"]

strip_token(token_vector, i, g) ==
    LET t == token_vector[i + 1]
    IN CASE t.type = "Colon" -> ColonArm(g, i, t.s)
         [] t.type = "SemiColon" ->
              IF g.mode = <<>>
              THEN [g EXCEPT !.segment_stop = i, !.k.err = "InvalidSyntax",
                             !.k.msg = "Semicolon before colon"]
              ELSE [g EXCEPT
                      !.k = CommitDefinition(g.k, g.mode[1],
                                Slice(token_vector, g.segment_start + 1, i)),
                      !.segment_start = i + 1,
                      !.segment_stop = Len(token_vector),
                      !.mode = <<>>]
         [] OTHER -> g

\* the for loop, left at the first error (g0 is evaluated once, as g)
RECURSIVE strip_loop(_, _, _)
strip_loop(token_vector, i, g0) ==
    CHOOSE r \in
        { IF i >= Len(token_vector) \/ g.k.err # ""
          THEN g
          ELSE strip_loop(token_vector, i + 1, strip_token(token_vector, i, g)) :
            g \in {g0} } : TRUE

\* compile_token_vector_strip_word_definitions: the definitions are
\* committed, then token_vector[segment_start..segment_stop] is compiled as
\* the immediate-mode body
compile_token_vector_strip_word_definitions(token_vector, k) ==
    LET g == strip_loop(token_vector, 0,
                 [k |-> k, segment_start |-> 0, segment_stop |-> Len(token_vector),
                  mode |-> <<>>])
    IN IF g.k.err # ""
       THEN [k |-> g.k, tvi |-> <<>>]
       ELSE LET r == compile_token_vector(
                         Slice(token_vector, g.segment_start, g.segment_stop),
                         g.k.word_addresses)
            IN [k |-> [g.k EXCEPT !.err = r.err, !.msg = r.msg], tvi |-> Append(r.tv, RET)]

----------------------------------------------------------------------------
(* Bounds and inputs *)

MaxBranch == 3     \* longest IF or ELSE branch, in words
MaxCalls == 2      \* calls made on one compiler or machine
MaxSteps == 12     \* opcodes one run may execute before the model stops it
MaxGas == 3        \* largest finite gas limit of the machine-level runs
MaxPush == 3       \* longest push-only image
MaxHandlers == 2   \* handlers registered on one machine

RECURSIVE SeqsUpTo(_, _)
SeqsUpTo(S, n) ==
    IF n = 0 THEN {<<>>}
    ELSE LET shorter == SeqsUpTo(S, n - 1)
         IN shorter \cup {Append(q, e) : q \in {r \in shorter : Len(r) = n - 1}, e \in S}

\* the branches of the conditionals: prefixes of `1 2 ADD INC ...`
BranchWordsA == <<"1", "2", "ADD", "INC", "DUP", "POP", "DEC">>
BranchWordsB == <<"3", "4", "ADD", "INC", "DUP", "POP", "DEC">>
BranchesA == {SubSeq(BranchWordsA, 1, n) : n \in 0..MaxBranch}
BranchesB == {SubSeq(BranchWordsB, 1, n) : n \in 0..MaxBranch}
TestWords == {"0", "1", "-1"}

IfElseSource(t, A, B) == <<t, "IF">> \o A \o <<"ELSE">> \o B \o <<"THEN">>
IfSource(t, A) == <<t, "IF">> \o A \o <<"THEN">>

IfElseSources == {IfElseSource(t, A, B) : t \in TestWords, A \in BranchesA, B \in BranchesB}
IfSources == {IfSource(t, A) : t \in TestWords, A \in BranchesA}

NestedIf(t) ==
    <<t, "IF", "2", "IF", "ADD", "3", "MUL", "THEN", "ELSE", "ADD", "4", "MUL", "THEN">>
NestedSources == {NestedIf("1"), NestedIf("0")}

\* conditionals nested in both branches and three deep
DeepSources ==
    { <<"1", "IF", "2", "IF", "3", "ELSE", "4", "THEN", "ELSE", "0", "IF", "5", "THEN", "THEN">>,
      <<"0", "IF", "1", "IF", "2", "IF", "3", "THEN", "THEN", "THEN", "4">> }

\* an IF that no THEN closes: alone, with an ELSE, around a closed IF
UnclosedSources ==
    { <<"1", "IF", "5">>,
      <<"0", "IF", "5", "ELSE", "6">>,
      <<"1", "IF", "2", "IF", "3", "THEN", "4">> }

\* two ELSE for one IF
DoubleElse == <<"1", "IF", "2", "ELSE", "3", "ELSE", "4", "THEN">>

\* bodies of numbers, intrinsics and conditionals, run inline and as a word
InlineBodies ==
    {IfElseSource(t, A, B) : t \in TestWords, A \in {<<>>, <<"1">>}, B \in {<<>>, <<"3">>}}
    \cup {IfSource(t, <<"1">>) : t \in TestWords}
    \cup {<<"1", "2", "ADD">>, <<"ADD">>, <<"DUP", "MUL">>}
WordCall(B) == <<":", "W">> \o B \o <<";", "W">>
WordCalls == {WordCall(B) : B \in InlineBodies}

\* a digit string outside the range of i64
TooLarge == "9223372036854775808"

\* sources the tokenizer or the compiler rejects, and odd names after `:`
RejectedSources ==
    { <<"2", ";">>,
      <<"THEN">>,
      <<"1", "ELSE">>,
      <<"1", "IF", ":", "C", "THEN", ";">>,
      <<"1", ":">>,
      <<":", "5", "1", ";", "5">>,
      <<":", ";", "1", ";">>,
      <<":", ":", ":", "C">>,
      <<":", "C", "5">>,
      <<":", "C", "1", ";", "5", ":", "D", "2">>,
      <<TooLarge>> }

\* sources run as the only call on a fresh compiler
OneShotSources ==
    IfElseSources \cup IfSources \cup NestedSources \cup DeepSources \cup RejectedSources
    \cup UnclosedSources \cup {DoubleElse} \cup WordCalls

\* sources a session of several calls is made of
SessionSources ==
    { <<":", "A", "5", ";">>,
      <<":", "A", "5", "INC", ";", "A">>,
      <<"A">>,
      <<"B">>,
      <<"1", "2", "ADD", "A">>,
      <<":", "B", "A", "INC", ";", "B">>,
      <<":", "A", "9", ";", "B">>,
      <<":", "A", "5", ";", "A", ":", "B", "A", ";">>,
      <<"1", ":", "A", "5", ";", "2">>,
      <<":", "ADD", "6", ";", "1", "2", "ADD">>,
      <<"1", "2", "ADD">>,
      <<":", "A", "1", ";", ":", "B", "A", ";", ":", "A", "2", ";", "B">>,
      <<":", "A", "ZZ", ";">>,
      <<"A", ":", "A", "5", ";">>,
      <<":", "C", "1", ":", "D", "2", ";">>,
      <<":", "C", "1", ";", ";">>,
      <<":", "C", "C", ";">>,
      <<":", "C", "1", "IF", ";", "THEN">>,
      <<":", "C", "1", ";", ":", "D", "ZZ", ";">>,
      <<"ZZ">> }

Sources == OneShotSources \cup SessionSources

\* operand stacks a host primes before the first call
InitialStacks == {<<>>, <<2>>, <<123, 321>>}

\* gas limits of the execute_string calls
SourceGasLimits == {Unlimited, Limited(100), Limited(MaxGas)}

----------------------------------------------------------------------------
(* ForthCompiler: specification Spec *)

Compiler ==
    [err |-> "", msg |-> "", opcodes |-> opcodes, last_function |-> last_function,
     word_addresses |-> word_addresses]

Entry(api, compiled) ==
    [api |-> api, compiled |-> compiled, number_stack |-> number_stack, return_stack |-> return_stack,
     opcodes |-> opcodes, last_function |-> last_function,
     word_addresses |-> word_addresses, gas_used |-> gas_used]

\* mutant: the image is cleared instead of cut back to the high-water mark
install_at_zero(image, lf, ol) == ol

\* mutant: the immediate-mode code is appended without cutting the image back
install_append(image, lf, ol) == image \o ol

\* execute_token_vector: cut the image back to last_function, append the
\* immediate-mode code
install(image, lf, ol) == Resize(image, lf) \o ol

\* ForthCompiler::new with a primed operand stack
Init ==
    /\ opcodes = <<>>
    /\ number_stack \in InitialStacks
    /\ return_stack = <<>>
    /\ pc = 0
    /\ gas_used = 0
    /\ trap_handlers = <<>>
    /\ word_addresses = <<>>
    /\ last_function = 0
    /\ phase = "idle"
    /\ result = "None"
    /\ payload = ""
    /\ gas_limit = Unlimited
    /\ src = <<>>
    /\ calls = 0
    /\ executed = 0
    /\ trace = <<>>
    /\ consulted = <<>>
    /\ entry = Entry("none", FALSE)

\* mutant: the machine is entered (gas_used and pc reset) before the error
\* is returned
RejectedAfterEntry(err, msg) ==
    /\ result' = err
    /\ payload' = msg
    /\ phase' = IF err = "Panic" THEN "aborted" ELSE "idle"
    /\ gas_used' = 0
    /\ pc' = last_function
    /\ UNCHANGED <<number_stack, return_stack>>

\* the `?` of execute_string and of execute_token_vector: the error is
\* returned before the image is extended and before the machine is entered
Rejected(err, msg) ==
    /\ result' = err
    /\ payload' = msg
    /\ phase' = IF err = "Panic" THEN "aborted" ELSE "idle"
    /\ UNCHANGED <<number_stack, return_stack, pc, gas_used>>

\* execute_string(s, limit) up to the entry of StackMachine::execute
ExecuteString(s, limit) ==
    /\ phase = "idle"
    /\ calls < MaxCalls
    /\ calls > 0 => (src \in SessionSources /\ s \in SessionSources)
    /\ calls' = calls + 1
    /\ src' = s
    /\ gas_limit' = limit
    /\ executed' = 0
    /\ trace' = <<>>
    /\ consulted' = <<>>
    /\ UNCHANGED trap_handlers
    /\ LET tk == tokenize_string(s, 1, <<>>)
       IN IF tk.err # ""
          THEN /\ Rejected(tk.err, tk.msg)
               /\ entry' = Entry("execute_string", FALSE)
               /\ UNCHANGED <<opcodes, word_addresses, last_function>>
          ELSE LET c == compile_token_vector_strip_word_definitions(tk.tv, Compiler)
               IN /\ word_addresses' = c.k.word_addresses
                  /\ last_function' = c.k.last_function
                  /\ entry' = Entry("execute_string", c.k.err = "")
                  /\ IF c.k.err # ""
                     THEN /\ Rejected(c.k.err, c.k.msg)
                          /\ opcodes' = c.k.opcodes
                     ELSE /\ result' = "Running"
                          /\ payload' = ""
                          /\ UNCHANGED <<number_stack, return_stack>>
                          /\ phase' = "running"
                          /\ opcodes' = install(c.k.opcodes, c.k.last_function, c.tvi)
                          /\ pc' = c.k.last_function
                          /\ gas_used' = 0

\* From<StackMachineError> for ForthError
ForthErrorFrom(err) == IF err = "NumberStackUnderflow" THEN "PopOfEmptyStack" ELSE err

\* one iteration of the loop of StackMachine::execute
Step ==
    /\ phase = "running"
    /\ executed < MaxSteps
    /\ \E st \in LoopBody(opcodes, MachineState, trap_handlers, gas_limit) :
         /\ number_stack' = st.number_stack
         /\ return_stack' = st.return_stack
         /\ pc' = st.pc
         /\ gas_used' = st.gas_used
         /\ consulted' = st.consulted
         /\ phase' = CASE st.done = "" -> "running"
                       [] st.done = "Panic" -> "aborted"
                       [] OTHER -> "idle"
         /\ result' = CASE st.done = "" -> "Running"
                        [] entry.api = "execute_string" -> ForthErrorFrom(st.done)
                        [] OTHER -> st.done
    /\ payload' = ""
    /\ executed' = IF pc < Len(opcodes) THEN executed + 1 ELSE executed
    /\ trace' = IF pc < Len(opcodes) THEN Append(trace, pc) ELSE trace
    /\ UNCHANGED <<opcodes, trap_handlers, word_addresses, last_function, gas_limit,
                   src, calls, entry>>

Next ==
    \/ \E s \in Sources, limit \in SourceGasLimits : ExecuteString(s, limit)
    \/ Step

Spec == Init /\ [][Next]_vars

----------------------------------------------------------------------------
(* StackMachine: specification SpecVM *)

\* images made of k push-immediate instructions and RET
PushImage(k) == [i \in 1..k |-> LDI(i - 1)] \o <<RET>>
PushImages == {PushImage(k) : k \in 0..MaxPush}

TrapImages == {<<TRAP, RET>>, <<TRAP, LDI(7), RET>>}

PlainImages ==
    PushImages \cup
    { <<LDI(-1), JR>>,                      \* an endless loop
      <<LDI(0), CALL>>,                     \* unbounded recursion
      <<LDI(3), CALL, RET, LDI(1), RET>>,   \* one call and its return
      <<POP, RET>>,
      <<ADD, RET>>,
      <<NOP>> }                             \* runs off the end of the image

PlainStacks == {<<>>, <<123, 321>>}

\* one arithmetic, comparison or stack opcode and RET, on the operand
\* stacks of the tests and on stacks that are too short
ArithImages ==
    { <<ADD, RET>>, <<SUB, RET>>, <<MUL, RET>>, <<DIV, RET>>,
      <<CMPZ, RET>>, <<CMPNZ, RET>>, <<SWAP, RET>>, <<CALL, RET>> }
ArithStacks ==
    { <<7>>, <<321, 444>>, <<321, 39483>>, <<5, 123, 321>>, <<2, 0>>, <<0, 2>>,
      <<I64Max, 1>>, <<5, 1>> }

\* jumps: JR forward, JR forward then backward, JMP, and a conditional or
\* relative jump that takes its operands from the primed stack
JumpImages ==
    { <<LDI(3), JR, LDI(1), LDI(2), LDI(5), RET>>,
      <<LDI(3), JR, LDI(7), RET, LDI(-3), JR>>,
      <<LDI(3), JMP, LDI(1), LDI(2), RET>>,
      <<JRZ, LDI(1), LDI(2), RET>>,
      <<JRNZ, LDI(1), LDI(2), RET>>,
      <<JR, LDI(1), LDI(2), RET>>,
      <<LDI(6), LDI(2), LDI(-1), JRZ, RET>> }
JumpStacks == {<<>>, <<0, 2>>, <<1, 2>>, <<0, -1>>, <<1, -1>>, <<7>>}

\* a word that calls a word: main calls f at 3, f calls g at 7
CallImages ==
    { <<LDI(3), CALL, RET, LDI(7), CALL, LDI(1), RET, LDI(2), RET>> }
TrapStacks == {<<>>, <<100>>, <<50, 100>>, <<50, -100>>, <<50, 7>>}

\* the closures a host registers: the three of the tests, one that declines
\* the id it matches, and one that declines after pushing a mark
HandlerChoices ==
    { Handler(100, 1, <<200>>, "Handled"),
      Handler(100, 1, <<300>>, "Handled"),
      Handler(-100, 1, <<-100>>, "Handled"),
      Handler(100, 0, <<>>, "NotHandled"),
      Handler(100, 0, <<1>>, "NotHandled") }
HandlerLists == SeqsUpTo(HandlerChoices, MaxHandlers)

GasLimits == {Unlimited} \cup {Limited(n) : n \in 0..MaxGas}

\* StackMachine::new, then the host fills opcodes, number_stack and trap_handlers
InitVM ==
    /\ \/ /\ opcodes \in PlainImages \cup CallImages
          /\ number_stack \in PlainStacks
          /\ trap_handlers = <<>>
       \/ /\ opcodes \in ArithImages
          /\ number_stack \in ArithStacks
          /\ trap_handlers = <<>>
       \/ /\ opcodes \in JumpImages
          /\ number_stack \in JumpStacks
          /\ trap_handlers = <<>>
       \/ /\ opcodes \in TrapImages
          /\ number_stack \in TrapStacks
          /\ trap_handlers \in HandlerLists
    /\ return_stack = <<>>
    /\ pc = 0
    /\ gas_used = 0
    /\ word_addresses = <<>>
    /\ last_function = 0
    /\ phase = "idle"
    /\ result = "None"
    /\ payload = ""
    /\ gas_limit = Unlimited
    /\ src = <<>>
    /\ calls = 0
    /\ executed = 0
    /\ trace = <<>>
    /\ consulted = <<>>
    /\ entry = Entry("none", FALSE)

\* StackMachine::execute(starting_point, gas_limit) up to the loop
Execute(starting_point, limit) ==
    /\ phase = "idle"
    /\ calls < MaxCalls
    /\ gas_used' = 0
    /\ pc' = starting_point
    /\ phase' = "running"
    /\ result' = "Running"
    /\ payload' = ""
    /\ gas_limit' = limit
    /\ calls' = calls + 1
    /\ executed' = 0
    /\ trace' = <<>>
    /\ consulted' = <<>>
    /\ entry' = Entry("execute", TRUE)
    /\ UNCHANGED <<opcodes, number_stack, return_stack, trap_handlers, word_addresses,
                   last_function, src>>

NextVM ==
    \/ \E starting_point \in 0..(Len(opcodes) - 1), limit \in GasLimits :
           Execute(starting_point, limit)
    \/ Step

SpecVM == InitVM /\ [][NextVM]_vars

----------------------------------------------------------------------------
(* Vocabulary of the claims *)

Tokens(words) == tokenize_string(words, 1, <<>>).tv

\* number of opcodes a branch of numbers and intrinsics compiles to
OpLen(words) == Len(compile_token_vector(Tokens(words), <<>>).tv)

\* the run of the last call has returned
Returned == phase = "idle" /\ calls > 0

\* the run was not cut short by its gas limit or by the step bound
Unmetered == ~gas_limit.limited \/ gas_limit.x >= MaxSteps

\* the instruction at offset i of the immediate-mode body was executed
Ran(i) == \E n \in 1..Len(trace) : trace[n] = last_function + i

\* the immediate-mode body of the image
ImmediateBody == SubSeq(opcodes, last_function + 1, Len(opcodes))

----------------------------------------------------------------------------
(* C1 *)

\* offsets of `t IF A ELSE B THEN`: t, placeholder, JRNZ, A, placeholder, JR, B, RET
ARange(A) == 3..(2 + OpLen(A))
BRange(A, B) == (5 + OpLen(A))..(4 + OpLen(A) + OpLen(B))
AfterThen(A, B) == 5 + OpLen(A) + OpLen(B)

\* C1: for every `t IF A ELSE B THEN`, a zero test runs exactly the
\* instructions of A and none of B, a nonzero test runs exactly the
\* instructions of B and none of A, and in both cases the run goes on with
\* the instruction after THEN (here the final RET) and succeeds.
C1_BranchesExclusive ==
    \A t \in TestWords, A \in BranchesA, B \in BranchesB :
        (Returned /\ Unmetered /\ src = IfElseSource(t, A, B)) =>
            /\ result = "Ok"
            /\ Ran(AfterThen(A, B))
            /\ t = "0" => /\ \A i \in ARange(A) : Ran(i)
                          /\ \A i \in BRange(A, B) : ~Ran(i)
            /\ t # "0" => /\ \A i \in BRange(A, B) : Ran(i)
                          /\ \A i \in ARange(A) : ~Ran(i)

----------------------------------------------------------------------------
(* C2 *)

\* C2: `1 IF 2 IF ADD 3 MUL THEN ELSE ADD 4 MUL THEN` on the operand stack
\* [123, 321] ends with [1332], and with the outer test 0 it ends with [1776].
C2_NestedResults ==
    (Returned /\ Unmetered /\ entry.number_stack = <<123, 321>>) =>
        /\ src = NestedIf("1") => (result = "Ok" /\ number_stack = <<1332>>)
        /\ src = NestedIf("0") => (result = "Ok" /\ number_stack = <<1776>>)

----------------------------------------------------------------------------
(* C3 *)

\* the tokens outside every `: name ... ;`, in source order
RECURSIVE TopLevel(_, _, _)
TopLevel(tv, i, inside) ==
    IF i > Len(tv) THEN <<>>
    ELSE CASE tv[i].type = "Colon" -> TopLevel(tv, i + 1, TRUE)
           [] tv[i].type = "SemiColon" -> TopLevel(tv, i + 1, FALSE)
           [] OTHER -> IF inside THEN TopLevel(tv, i + 1, inside)
                       ELSE <<tv[i]>> \o TopLevel(tv, i + 1, inside)

\* C3: every top-level token outside the definitions, before, between or
\* after them, is compiled into the immediate-mode body in source order
\* (and so executed by execute_string).
C3_TopLevelCompiled ==
    (entry.compiled /\ src \in SessionSources) =>
        ImmediateBody =
            Append(compile_token_vector(TopLevel(Tokens(src), 1, FALSE), word_addresses).tv,
                   RET)

----------------------------------------------------------------------------
(* C4 *)

HasDefinition(words) == \E i \in 1..Len(words) : words[i] = ":"

\* the words of the image below offset n
Below(image, n) == SubSeq(image, 1, n)

\* C4: a call without a definition leaves the Word Table, the high-water
\* mark and every opcode below the mark as it found them; a word committed
\* by an earlier call resolves to the entry offset it was given, and the run
\* enters the body compiled then.
C4_WordsPersist ==
    (entry.compiled /\ ~HasDefinition(src)) =>
        /\ word_addresses = entry.word_addresses
        /\ last_function = entry.last_function
        /\ Below(opcodes, last_function) = Below(entry.opcodes, entry.last_function)
        /\ \A w \in DOMAIN entry.word_addresses :
               (Len(src) > 0 /\ src[Len(src)] = w) =>
                   /\ Len(ImmediateBody) >= 3
                   /\ SubSeq(ImmediateBody, Len(ImmediateBody) - 2, Len(ImmediateBody))
                          = <<LDI(entry.word_addresses[w]), CALL, RET>>
                   /\ (Returned /\ result = "Ok" /\ Unmetered) =>
                          \E n \in 1..Len(trace) : trace[n] = entry.word_addresses[w]

\* C4 witness: a second call made only of the name of a word the first call
\* defined has run that word
C4_Witness ==
    /\ calls = 2 /\ Returned /\ result = "Ok"
    /\ src = <<"A">> /\ "A" \in DOMAIN entry.word_addresses
    /\ Len(number_stack) = Len(entry.number_stack) + 1

----------------------------------------------------------------------------
(* C5 *)

Redefinition == <<":", "A", "1", ";", ":", "B", "A", ";", ":", "A", "2", ";", "B">>
RedefineLater == <<":", "A", "9", ";", "B">>

\* B was committed before this call and its body starts with a call of the A of then
CallsOldA ==
    /\ {"A", "B"} \subseteq DOMAIN entry.word_addresses
    /\ entry.opcodes[entry.word_addresses["B"] + 1] = LDI(entry.word_addresses["A"])

\* the call in the body of B was executed, and each time the next
\* instruction fetched was the one at offset target
BEnters(target) ==
    /\ \E n \in 1..Len(trace) : trace[n] = word_addresses["B"] + 1
    /\ \A n \in 1..(Len(trace) - 1) :
           trace[n] = word_addresses["B"] + 1 => trace[n + 1] = target

\* C5: a redefinition changes only how later compilations resolve the name:
\* the code committed before the call is never overwritten, and a word
\* compiled before the redefinition still enters the old body, not the new one.
C5_RedefinitionKeepsCallers ==
    /\ entry.compiled =>
           Below(opcodes, entry.last_function) = Below(entry.opcodes, entry.last_function)
    /\ (Returned /\ result = "Ok" /\ Unmetered /\ src = Redefinition) =>
           LET old == opcodes[word_addresses["B"] + 1].arg
           IN /\ old < word_addresses["B"]
              /\ word_addresses["A"] > word_addresses["B"]
              /\ opcodes[old + 1] = LDI(1)
              /\ opcodes[word_addresses["A"] + 1] = LDI(2)
              /\ BEnters(old)
    /\ (Returned /\ result = "Ok" /\ Unmetered /\ src = RedefineLater /\ CallsOldA) =>
           /\ word_addresses["A"] # entry.word_addresses["A"]
           /\ word_addresses["B"] = entry.word_addresses["B"]
           /\ opcodes[word_addresses["A"] + 1] = LDI(9)
           /\ BEnters(entry.word_addresses["A"])

\* C5 witness: B, compiled by an earlier call, has run after A was redefined
C5_Witness ==
    /\ Returned /\ result = "Ok" /\ src = RedefineLater /\ CallsOldA
    /\ word_addresses["A"] # entry.word_addresses["A"]

----------------------------------------------------------------------------
(* C6 *)

Collision == <<":", "ADD", "6", ";", "1", "2", "ADD">>

\* the last word of the source is a top-level command
EndsWithCommand(words) ==
    /\ Len(words) > 0
    /\ words[Len(words)] \notin {"IF", "ELSE", "THEN", ":", ";"} \cup DOMAIN NumeralValue
    /\ Len(words) > 1 => words[Len(words) - 1] # ":"

\* the code emitted for the last word of the source
LastEmitted(n) == SubSeq(ImmediateBody, Len(ImmediateBody) - n, Len(ImmediateBody) - 1)

\* C6: a command that is in the Word Table compiles to push-immediate of
\* its entry offset and CALL, also when the name is an intrinsic; the
\* opcodes of the intrinsic are emitted only when the Word Table lacks the name.
C6_WordBeforeIntrinsic ==
    (entry.compiled /\ EndsWithCommand(src)) =>
        LET w == src[Len(src)]
        IN IF w \in DOMAIN word_addresses
           THEN LastEmitted(2) = <<LDI(word_addresses[w]), CALL>>
           ELSE /\ w \in DOMAIN intrinsic_words
                /\ LastEmitted(Len(intrinsic_words[w])) = intrinsic_words[w]

\* C6 witness: ADD is a user word and `1 2 ADD` has called it
C6_Witness ==
    /\ Returned /\ result = "Ok" /\ src = Collision
    /\ "ADD" \in DOMAIN word_addresses
    /\ number_stack = entry.number_stack \o <<1, 2, 6>>

----------------------------------------------------------------------------
(* C7 *)

----------------------------------------------------------------------------
(* C8 *)

\* C8: execute returns success only by executing RET while the return
\* stack is empty; a TRAP that a handler reported as Handled is followed by
\* the fetch of a further instruction.
C8_OnlyRetTerminates ==
    (Returned /\ result = "Ok") =>
        /\ Len(trace) > 0
        /\ opcodes[trace[Len(trace)] + 1] = RET
        /\ return_stack = <<>>

----------------------------------------------------------------------------
(* C9 and C10 *)

\* the next iteration executes TRAP with a trap id on the operand stack
TrapStep ==
    /\ phase = "running" /\ executed < MaxSteps
    /\ pc < Len(opcodes) /\ opcodes[pc + 1] = TRAP
    /\ Len(number_stack) >= 1

\* the operand stack after the first k handlers were offered the id in turn
RECURSIVE AfterHandlers(_, _, _)
AfterHandlers(k, id, rest) ==
    IF k = 0 THEN rest
    ELSE handle_trap(trap_handlers[k], id, AfterHandlers(k - 1, id, rest)).stack

\* what handler k reports when its turn comes
Reports(k, id, rest) ==
    handle_trap(trap_handlers[k], id, AfterHandlers(k - 1, id, rest)).ret

\* handler k is the first to report Handled, all before it report NotHandled
FirstHandled(k, id, rest) ==
    /\ Reports(k, id, rest) = "Handled"
    /\ \A j \in 1..(k - 1) : Reports(j, id, rest) = "NotHandled"

\* C9: TRAP pops the id and offers it to the handlers in registration
\* order, stopping at the first that reports Handled: exactly the handlers
\* up to that one are invoked, in order, none after it, and when the
\* handlers before it do not match the id the operand stack is the one its
\* closure alone leaves.
C9_FirstHandledWins ==
    [][TrapStep =>
         LET id == Top(number_stack)
             rest == Pop1(number_stack)
         IN \A k \in 1..Len(trap_handlers) :
                FirstHandled(k, id, rest) =>
                    /\ consulted' = [i \in 1..k |-> i]
                    /\ number_stack' = AfterHandlers(k, id, rest)
                    /\ (\A j \in 1..(k - 1) : trap_handlers[j].handled_trap # id) =>
                           number_stack' = to_run(trap_handlers[k], rest).stack]_vars

\* C9 witness: two handlers handle id 100, only the first has acted
C9_Witness ==
    /\ Len(trap_handlers) = 2
    /\ trap_handlers[1] = Handler(100, 1, <<200>>, "Handled")
    /\ trap_handlers[2] = Handler(100, 1, <<300>>, "Handled")
    /\ entry.number_stack = <<50, 100>>
    /\ Returned /\ consulted = <<1>> /\ number_stack = <<200>>

\* C10: when every registered handler reports NotHandled (also when there
\* is none) execute fails with UnhandledTrap with the trap id popped, and
\* when no TrapHandler matches the id the rest of the operand stack is as
\* it was.
C10_UnhandledTrap ==
    [][TrapStep =>
         LET id == Top(number_stack)
             rest == Pop1(number_stack)
         IN /\ (\A k \in 1..Len(trap_handlers) : Reports(k, id, rest) = "NotHandled") =>
                   /\ result' = "UnhandledTrap"
                   /\ phase' = "idle"
                   /\ number_stack' = AfterHandlers(Len(trap_handlers), id, rest)
            /\ (\A k \in 1..Len(trap_handlers) : trap_handlers[k].handled_trap # id) =>
                   /\ result' = "UnhandledTrap"
                   /\ number_stack' = rest]_vars

\* C10 witness: handlers are registered, none for id 7, and the run has failed
C10_Witness ==
    /\ Len(trap_handlers) > 0
    /\ entry.number_stack = <<50, 7>>
    /\ Returned /\ result = "UnhandledTrap" /\ number_stack = <<50>>
    /\ consulted = [i \in 1..Len(trap_handlers) |-> i]

----------------------------------------------------------------------------
(* C11 to C14: single opcodes *)

\* number of operands an opcode pops
Needs(name) ==
    CASE name \in {"JMP", "JR", "CALL", "CMPZ", "CMPNZ", "POP", "NOT", "DUP", "TRAP"} -> 1
      [] name \in {"JRZ", "JRNZ", "ADD", "SUB", "MUL", "DIV", "SWAP"} -> 2
      [] OTHER -> 0

\* the next iteration fetches an opcode of the image
FetchStep == phase = "running" /\ executed < MaxSteps /\ pc < Len(opcodes)

Fetched == opcodes[pc + 1]

\* C11: an opcode that needs more operands than the operand stack holds
\* ends the run at once with the stack-underflow error and rolls nothing
\* back: the operand stack is left empty, pc and gas_used stay as they were,
\* and the return address CALL pushed stays on the return stack.
C11_UnderflowAborts ==
    [][(FetchStep /\ Len(number_stack) < Needs(Fetched.op)) =>
         /\ result' = "NumberStackUnderflow"
         /\ phase' = "idle"
         /\ number_stack' = <<>>
         /\ return_stack' = IF Fetched = CALL THEN Append(return_stack, pc + 1)
                            ELSE return_stack
         /\ pc' = pc
         /\ gas_used' = gas_used
         /\ trace' = Append(trace, pc)]_vars

\* C11 witness: ADD on a one-element stack has failed and emptied the stack
C11_Witness ==
    /\ Returned /\ result = "NumberStackUnderflow"
    /\ opcodes[pc + 1] = ADD
    /\ Len(entry.number_stack) = 1
    /\ number_stack = <<>>

\* x op y for the four arithmetic opcodes
BinaryValue(name, x, y) ==
    CASE name = "ADD" -> x + y
      [] name = "SUB" -> x - y
      [] name = "MUL" -> x * y
      [] name = "DIV" -> IF y = 0 THEN 0 ELSE TruncDiv(x, y)

\* C12: ADD, SUB, MUL and DIV take x from the top and y from below it and
\* push x op y (top minus second, top divided by second); the stack below
\* the two operands is unchanged and the depth drops by one.  Stated for
\* the steps whose result exists: a nonzero divisor and a value inside i64.
C12_TopOpSecond ==
    [][(FetchStep /\ Fetched.op \in {"ADD", "SUB", "MUL", "DIV"} /\ Len(number_stack) >= 2) =>
         LET x == Top(number_stack)
             y == number_stack[Len(number_stack) - 1]
             v == BinaryValue(Fetched.op, x, y)
         IN ((Fetched.op = "DIV" => y # 0) /\ InI64(v)) =>
                /\ number_stack' = Append(Pop2(number_stack), v)
                /\ Len(number_stack') = Len(number_stack) - 1]_vars

\* C12 witness: [321, 444] SUB has given [123]
C12_Witness ==
    /\ opcodes = <<SUB, RET>>
    /\ entry.number_stack = <<321, 444>>
    /\ Returned /\ result = "Ok" /\ number_stack = <<123>>

\* C13: CMPZ replaces the top x by 0 when x = 0 and by -1 otherwise, CMPNZ
\* replaces it by the bitwise NOT of that value; both results are in
\* {0, -1} and the stack below the top is unchanged.
C13_CompareComplement ==
    [][(FetchStep /\ Fetched.op \in {"CMPZ", "CMPNZ"} /\ Len(number_stack) >= 1) =>
         LET x == Top(number_stack)
             z == IF x = 0 THEN 0 ELSE -1
         IN /\ Fetched = CMPZ => number_stack' = Append(Pop1(number_stack), z)
            /\ Fetched = CMPNZ => number_stack' = Append(Pop1(number_stack), -z - 1)
            /\ Top(number_stack') \in {0, -1}
            /\ Pop1(number_stack') = Pop1(number_stack)]_vars

\* C13 witness: CMPNZ on [2, 0] has given [2, -1]
C13_Witness ==
    /\ opcodes = <<CMPNZ, RET>>
    /\ entry.number_stack = <<2, 0>>
    /\ Returned /\ result = "Ok" /\ number_stack = <<2, -1>>

\* how many of the opcodes fetched by the current run are `o`
Fetches(o) == Cardinality({n \in 1..Len(trace) : opcodes[trace[n] + 1] = o})

\* C14: CALL at p pushes p + 1 and continues at the popped target, RET
\* resumes at the address on top of the return stack, and at every step of
\* a run the depth of the return stack is the number of calls of this run
\* that have not returned.
C14_ReturnDepth ==
    phase = "running" => Len(return_stack) = Fetches(CALL) - Fetches(RET)

----------------------------------------------------------------------------
(* C15 to C18: what the compiler rejects *)

\* the last call was execute_string and its text was tokenized
Tokenized == entry.api = "execute_string" /\ tokenize_string(src, 1, <<>>).err = ""

\* index of the last Colon or SemiColon before token j, 0 if there is none
PrevMark(tv, j) ==
    LET M == {i \in 1..(j - 1) : tv[i].type \in {"Colon", "SemiColon"}}
    IN IF M = {} THEN 0 ELSE CHOOSE i \in M : \A k \in M : k <= i

\* a definition is open when token j is met
OpenAt(tv, j) == PrevMark(tv, j) # 0 /\ tv[PrevMark(tv, j)].type = "Colon"

\* a Colon inside a definition, or a SemiColon outside one
Faults(tv) ==
    {j \in 1..Len(tv) : \/ tv[j].type = "Colon" /\ OpenAt(tv, j)
                        \/ tv[j].type = "SemiColon" /\ ~OpenAt(tv, j)}

Least(S) == CHOOSE i \in S : \A k \in S : i <= k

\* names of the definitions closed before token j
ClosedNames(tv, j) ==
    {tv[i].s : i \in {i \in 1..(j - 1) : tv[i].type = "Colon" /\ i # PrevMark(tv, j)}}

\* every name used before token j is an intrinsic or was in the Word Table
\* when the call began
KnownBefore(tv, j, wa) ==
    \A i \in 1..(j - 1) :
        tv[i].type = "Command" => tv[i].s \in DOMAIN intrinsic_words \cup DOMAIN wa

\* C15: a Colon met while a definition is open, and a SemiColon met while
\* none is open, make the call fail with InvalidSyntax (the definitions
\* closed before it having compiled); the open definition and the one the
\* second Colon names are not added to the Word Table.
C15_ColonSemicolonPairing ==
    (Tokenized /\ Faults(Tokens(src)) # {}) =>
        LET tv == Tokens(src)
            j == Least(Faults(tv))
        IN /\ result \in {"InvalidSyntax", "UnknownToken"}
           /\ KnownBefore(tv, j, entry.word_addresses) =>
                  /\ result = "InvalidSyntax"
                  /\ payload = IF tv[j].type = "Colon"
                               THEN "Second colon before semicolon"
                               ELSE "Semicolon before colon"
           /\ \A n \in DOMAIN word_addresses :
                  n \notin ClosedNames(tv, j) =>
                      /\ n \in DOMAIN entry.word_addresses
                      /\ word_addresses[n] = entry.word_addresses[n]

\* C15 witness: `: C 1 : D 2 ;` was rejected and defined neither C nor D
C15_Witness ==
    /\ src = <<":", "C", "1", ":", "D", "2", ";">>
    /\ result = "InvalidSyntax" /\ payload = "Second colon before semicolon"
    /\ "C" \notin DOMAIN word_addresses /\ "D" \notin DOMAIN word_addresses

\* every Colon has its SemiColon and every SemiColon its Colon
WellPaired(tv) == Faults(tv) = {} /\ ~OpenAt(tv, Len(tv) + 1)

\* the segments handed to compile_token_vector: the body of every
\* definition and the immediate-mode body, the tokens after the last SemiColon
Segments(tv) ==
    {SubSeq(tv, i + 1, Least({k \in (i + 1)..Len(tv) : tv[k].type = "SemiColon"}) - 1) :
         i \in {i \in 1..Len(tv) : tv[i].type = "Colon"}}
    \cup {SubSeq(tv, PrevMark(tv, Len(tv) + 1) + 1, Len(tv))}

CountOf(seg, n, w) == Cardinality({i \in 1..n : seg[i] = Command(w)})

\* positions of an ELSE or THEN of the segment with no IF of it still open
Unmatched(seg) ==
    {j \in 1..Len(seg) : /\ seg[j] \in {Command("ELSE"), Command("THEN")}
                         /\ CountOf(seg, j - 1, "IF") <= CountOf(seg, j - 1, "THEN")}

\* every name used is IF, ELSE, THEN, an intrinsic, or was in the Word Table
\* when the call began
AllKnown(tv, wa) ==
    \A i \in 1..Len(tv) :
        tv[i].type = "Command" =>
            tv[i].s \in {"IF", "ELSE", "THEN"} \cup DOMAIN intrinsic_words \cup DOMAIN wa

\* C16: the call fails with InvalidSyntax, "ELSE without IF" or "THEN
\* without IF", exactly when some compiled segment has an ELSE or THEN with
\* no IF of that same segment open; an IF of another segment does not count.
C16_ElseThenNeedIf ==
    (Tokenized /\ WellPaired(Tokens(src)) /\ AllKnown(Tokens(src), entry.word_addresses)) =>
        LET bad == {seg \in Segments(Tokens(src)) : Unmatched(seg) # {}}
        IN /\ result = "InvalidSyntax" <=> bad # {}
           /\ bad # {} =>
                  \E seg \in bad :
                      payload = IF seg[Least(Unmatched(seg))] = Command("ELSE")
                                THEN "ELSE without IF" ELSE "THEN without IF"

\* C16 witness: the THEN after `: C 1 IF ;` was rejected although the body
\* of C left an IF open
C16_Witness ==
    /\ src = <<":", "C", "1", "IF", ";", "THEN">>
    /\ result = "InvalidSyntax" /\ payload = "THEN without IF"
    /\ "C" \in DOMAIN word_addresses

\* the Command tokens that are compiled and resolve to nothing at that
\* moment: the Word Table then holds the entries the call found and the
\* definitions closed earlier in the sequence
UnknownAt(tv, wa) ==
    {j \in 1..Len(tv) :
        /\ tv[j].type = "Command"
        /\ OpenAt(tv, j) \/ j > PrevMark(tv, Len(tv) + 1)
        /\ tv[j].s \notin {"IF", "ELSE", "THEN"} \cup DOMAIN intrinsic_words
                          \cup DOMAIN wa \cup ClosedNames(tv, j)}

\* C17: a compiled Command that is not IF, ELSE or THEN, not in the Word
\* Table at that moment and not an intrinsic makes the call fail with
\* UnknownToken carrying the name, and nothing else does; a body that uses
\* its own, not yet defined, name fails so.
C17_UnknownToken ==
    (/\ Tokenized /\ WellPaired(Tokens(src))
     /\ \A seg \in Segments(Tokens(src)) : Unmatched(seg) = {}) =>
        LET tv == Tokens(src)
            U == UnknownAt(tv, entry.word_addresses)
        IN IF U = {} THEN result # "UnknownToken"
           ELSE result = "UnknownToken" /\ payload = tv[Least(U)].s

\* C17 witness: `: C C ;` failed on its own name and did not define C
C17_Witness ==
    /\ src = <<":", "C", "C", ";">>
    /\ "C" \notin DOMAIN entry.word_addresses
    /\ result = "UnknownToken" /\ payload = "C"
    /\ "C" \notin DOMAIN word_addresses

\* C18: when execute_string returns InvalidSyntax or UnknownToken no
\* instruction of the call was executed: the operand stack, the return stack
\* and gas_used are as the call found them.
C18_RejectedBeforeExecution ==
    (entry.api = "execute_string" /\ result \in {"InvalidSyntax", "UnknownToken"}) =>
        /\ phase = "idle"
        /\ trace = <<>>
        /\ number_stack = entry.number_stack
        /\ return_stack = entry.return_stack
        /\ gas_used = entry.gas_used

\* C18 witness: a call was rejected after an earlier call had run
C18_Witness ==
    /\ calls > 1 /\ result = "UnknownToken"
    /\ gas_used > 0 /\ gas_used = entry.gas_used
    /\ number_stack # <<>>

----------------------------------------------------------------------------
(* C19 *)

\* number of `:` words directly before word i
ColonRun(words, i) ==
    LET N == {k \in 1..(i - 1) : words[k] # ":"}
    IN IF N = {} THEN i - 1 ELSE (i - 1) - (CHOOSE k \in N : \A m \in N : m <= k)

\* the words that are not taken as the name of a preceding `:`
Heads(words) == {i \in 1..Len(words) : ColonRun(words, i) % 2 = 0}

\* the token word i stands for
TokenAt(words, i) ==
    IF words[i] \in DOMAIN NumeralValue THEN Number(NumeralValue[words[i]])
    ELSE IF words[i] = ":" THEN Colon(words[i + 1])
    ELSE IF words[i] = ";" THEN SemiColon
    ELSE Command(words[i])

\* the n-th of the words that stand for a token
HeadWord(words, n) ==
    CHOOSE i \in Heads(words) : Cardinality({k \in Heads(words) : k < i}) = n - 1

\* C19: each word, in input order, becomes Number if it parses as an
\* integer, SemiColon if it is `;`, and Command otherwise (a digit string
\* out of range included); `:` takes the next word, whatever it is, as the
\* name of a Colon token, and is an InvalidSyntax error when it is the last word.
C19_Tokenize ==
    entry.api = "execute_string" =>
        LET r == tokenize_string(src, 1, <<>>)
            dangling == Len(src) \in Heads(src) /\ src[Len(src)] = ":"
        IN /\ r.err = (IF dangling THEN "InvalidSyntax" ELSE "")
           /\ dangling => (result = "InvalidSyntax" /\ ~entry.compiled)
           /\ ~dangling =>
                  /\ Len(r.tv) = Cardinality(Heads(src))
                  /\ \A n \in 1..Len(r.tv) : r.tv[n] = TokenAt(src, HeadWord(src, n))
           /\ src = <<TooLarge>> => (result = "UnknownToken" /\ payload = TooLarge)

\* C19 witness: `: 5 1 ; 5` has defined a word named 5 and pushed the number 5
C19_Witness ==
    /\ src = <<":", "5", "1", ";", "5">>
    /\ Returned /\ result = "Ok"
    /\ "5" \in DOMAIN word_addresses
    /\ number_stack = Append(entry.number_stack, 5)

----------------------------------------------------------------------------
(* C20 *)

ForwardCall == <<"A", ":", "A", "5", ";">>

\* C20: a top-level word may be used before its definition in the same
\* sequence: `A : A 5 ;` compiles A as a call of the new definition and
\* executes it.
C20_ForwardReference ==
    (src = ForwardCall /\ Returned /\ result = "Ok" /\ Unmetered) =>
        /\ ImmediateBody = <<LDI(word_addresses["A"]), CALL, RET>>
        /\ \E n \in 1..Len(trace) : trace[n] = word_addresses["A"]

----------------------------------------------------------------------------
(* C21 *)

\* the gas limit allows a run of n opcodes: the last one is not charged
GasFor(n) == ~gas_limit.limited \/ gas_limit.x >= n - 1

\* C21: an image of push-immediate instructions followed by RET, executed
\* from offset 0 with gas for all of it, ends with success and the operand
\* stack is its initial content followed by the pushed values in program order.
C21_PushesInOrder ==
    \A k \in 0..MaxPush :
        (/\ opcodes = PushImage(k) /\ entry.api = "execute" /\ Returned
         /\ trace # <<>> /\ trace[1] = 0 /\ GasFor(k + 1)) =>
            /\ result = "Ok"
            /\ number_stack = entry.number_stack \o [i \in 1..k |-> i - 1]

\* C21 witness: two pushes on top of a primed stack
C21_Witness ==
    /\ opcodes = PushImage(2) /\ entry.number_stack = <<123, 321>>
    /\ Returned /\ result = "Ok" /\ trace = <<0, 1, 2>>
    /\ number_stack = <<123, 321, 0, 1>>

----------------------------------------------------------------------------
(* C27 to C30: jumps and the gas counter *)

\* C27: JR at p pops an offset d and the next fetch is at p + d, forward or
\* backward, with no increment; JMP pops a target a and the next fetch is at a.
C27_JumpTargets ==
    [][(FetchStep /\ Fetched.op \in {"JR", "JMP"} /\ Len(number_stack) >= 1) =>
         LET d == Top(number_stack)
         IN /\ (Fetched = JR /\ pc + d >= 0) =>
                   (pc' = pc + d /\ number_stack' = Pop1(number_stack))
            /\ (Fetched = JMP /\ d >= 0) =>
                   (pc' = d /\ number_stack' = Pop1(number_stack))]_vars

\* C27 witness: a JR forward by 3 and a JR backward by 3 were followed
C27_Witness ==
    /\ opcodes = <<LDI(3), JR, LDI(7), RET, LDI(-3), JR>>
    /\ Returned /\ result = "Ok"
    /\ trace = <<0, 1, 4, 5, 2, 3>>
    /\ number_stack = Append(entry.number_stack, 7)

\* C28: JRZ and JRNZ at p take the offset d from the top and the test value
\* x from below it; JRZ continues at p + d iff x = 0, JRNZ iff x # 0, and
\* otherwise at p + 1; both operands are consumed either way.
C28_ConditionalJumps ==
    [][(FetchStep /\ Fetched.op \in {"JRZ", "JRNZ"} /\ Len(number_stack) >= 2) =>
         LET d == Top(number_stack)
             x == number_stack[Len(number_stack) - 1]
             taken == IF Fetched = JRZ THEN x = 0 ELSE x # 0
         IN /\ (taken /\ pc + d >= 0) => pc' = pc + d
            /\ ~taken => pc' = pc + 1
            /\ number_stack' = Pop2(number_stack)]_vars

\* C28 witness: JRZ with x = 0 and d = 2 has skipped two instructions
C28_Witness ==
    /\ opcodes = <<JRZ, LDI(1), LDI(2), RET>>
    /\ entry.number_stack = <<0, 2>>
    /\ Returned /\ result = "Ok" /\ trace = <<0, 2, 3>>
    /\ number_stack = <<2>>

\* C29: a relative jump that is taken and whose target p + d is negative
\* does not wrap to an index: the run is aborted and pc keeps its value.
C29_NoWrapAround ==
    [][(/\ FetchStep /\ Fetched.op \in {"JR", "JRZ", "JRNZ"}
        /\ Len(number_stack) >= Needs(Fetched.op)
        /\ pc + Top(number_stack) < 0
        /\ Fetched = JRZ => number_stack[Len(number_stack) - 1] = 0
        /\ Fetched = JRNZ => number_stack[Len(number_stack) - 1] # 0) =>
         /\ phase' = "aborted"
         /\ result' = "Panic"
         /\ pc' = pc
         /\ gas_used' = gas_used]_vars

\* C29 witness: a JRZ at 0 with offset -1 and x = 0 has aborted the run
C29_Witness ==
    /\ opcodes = <<JRZ, LDI(1), LDI(2), RET>>
    /\ entry.number_stack = <<0, -1>>
    /\ phase = "aborted" /\ result = "Panic" /\ trace = <<0>> /\ pc = 0

----------------------------------------------------------------------------
(* C22 to C24: the placeholders of IF and ELSE *)

\* C22: in `t IF A ELSE B THEN` the IF's conditional jump plus the payload
\* of the IF placeholder is the index after the ELSE's jump, and the ELSE's
\* jump plus the payload of the ELSE placeholder is the index after THEN,
\* whatever the lengths of A and B.
C22_ElsePatchTargets ==
    \A t \in TestWords, A \in BranchesA, B \in BranchesB :
        (src = IfElseSource(t, A, B) /\ entry.compiled) =>
            LET if_jump == 2
                else_location == 3 + OpLen(A)
                else_jump == else_location + 1
                after_then == else_jump + 1 + OpLen(B)
            IN /\ if_jump + ImmediateBody[1 + 1].arg = else_jump + 1
               /\ else_jump + ImmediateBody[else_location + 1].arg = after_then

\* C23: in `t IF A THEN` the IF's conditional jump plus the payload of the
\* placeholder is the index after THEN; the jump removes the test value and
\* the offset, with t nonzero nothing of A runs, with t = 0 all of A runs,
\* and either way the run goes on right after THEN.
C23_IfWithoutElse ==
    \A t \in TestWords, A \in BranchesA :
        (src = IfSource(t, A) /\ entry.compiled) =>
            LET a == OpLen(A)
                after_then == 3 + a
            IN /\ ImmediateBody[1 + 1].op = "LDI"
               /\ 2 + ImmediateBody[1 + 1].arg = after_then
               /\ (phase = "running" /\ trace = <<0, 1, 2>>) =>
                      /\ number_stack = entry.number_stack
                      /\ pc = IF t = "0" THEN 3 ELSE after_then
               /\ (Returned /\ result = "Ok" /\ Unmetered) =>
                      trace = <<0, 1, 2>>
                              \o (IF t = "0" THEN [i \in 1..a |-> 2 + i] ELSE <<>>)
                              \o <<after_then>>

\* C23 witness: `1 IF 1 2 ADD THEN` has skipped the branch
C23_Witness ==
    /\ src = IfSource("1", <<"1", "2", "ADD">>)
    /\ Returned /\ result = "Ok"
    /\ trace = <<0, 1, 2, 6>>
    /\ number_stack = entry.number_stack

\* sources made of numbers, intrinsics and properly nested conditionals
NestedProperly == IfElseSources \cup IfSources \cup NestedSources \cup DeepSources

\* the state of compile_token_vector after the first k tokens of seg
After(seg, k) == compile_token_vector(SubSeq(seg, 1, k), <<>>)

\* current_instruction when token j of seg is processed
Loc(seg, j) == Len(After(seg, j - 1).tv)

CountIn(seg, w, from, to) == Cardinality({i \in from..to : seg[i] = Command(w)})

\* the IFs among the first k tokens that no THEN among them has closed
OpenIfs(seg, k) ==
    {i \in 1..k : /\ seg[i] = Command("IF")
                  /\ \A j \in (i + 1)..k :
                         CountIn(seg, "THEN", i + 1, j) <= CountIn(seg, "IF", i + 1, j)}

Greatest(S) == CHOOSE i \in S : \A k \in S : k <= i

\* the ELSE tokens among the first k that were met while IF i was the
\* innermost open one
ElsesOf(seg, i, k) ==
    {e \in (i + 1)..k : seg[e] = Command("ELSE") /\ Greatest(OpenIfs(seg, e - 1)) = i}

\* the elements of a set of numbers in increasing order
Sorted(S) ==
    [n \in 1..Cardinality(S) |-> CHOOSE i \in S : Cardinality({k \in S : k < i}) = n - 1]

\* C24: in a properly nested segment every ELSE and THEN applies to the
\* innermost open IF: after each token the deferred-if stack lists exactly
\* the open IFs, oldest first, each with the place of its own ELSE; a THEN
\* rewrites only the placeholders of the IF it closes and leaves those of
\* the enclosing IFs at 0; the stack is empty after the last token.
C24_LifoMatching ==
    (entry.api = "execute_string" /\ src \in NestedProperly) =>
        LET seg == Tokens(src)
        IN /\ \A k \in 1..Len(seg) :
                  LET open == Sorted(OpenIfs(seg, k))
                  IN After(seg, k).dis =
                         [n \in 1..Len(open) |->
                             [if_location |-> Loc(seg, open[n]),
                              else_location |->
                                  IF ElsesOf(seg, open[n], k) = {} THEN -1
                                  ELSE Loc(seg, Greatest(ElsesOf(seg, open[n], k)))]]
           /\ \A k \in 1..Len(seg) :
                  seg[k] = Command("THEN") =>
                      LET x == Greatest(OpenIfs(seg, k - 1))
                          before == After(seg, k - 1).tv
                          after == After(seg, k).tv
                      IN /\ Len(after) = Len(before)
                         /\ \A n \in 1..Len(after) :
                                after[n] # before[n] =>
                                    n - 1 \in {Loc(seg, x)} \cup
                                              {Loc(seg, e) : e \in ElsesOf(seg, x, k - 1)}
                         /\ \A i \in OpenIfs(seg, k) : after[Loc(seg, i) + 1] = LDI(0)
           /\ After(seg, Len(seg)).dis = <<>>

\* C24 witness: three nested IFs were closed innermost first
C24_Witness ==
    /\ src = <<"0", "IF", "1", "IF", "2", "IF", "3", "THEN", "THEN", "THEN", "4">>
    /\ entry.compiled
    /\ ImmediateBody[7 + 1] = LDI(2)
    /\ ImmediateBody[4 + 1] = LDI(5)
    /\ ImmediateBody[1 + 1] = LDI(8)

----------------------------------------------------------------------------
(* C25 and C26: the layout of the image *)

\* positions of the Colon tokens, in order
Colons(tv) == Sorted({i \in 1..Len(tv) : tv[i].type = "Colon"})

\* the body of the definition that starts at Colon i
BodyOf(tv, i) ==
    SubSeq(tv, i + 1, Least({k \in (i + 1)..Len(tv) : tv[k].type = "SemiColon"}) - 1)

\* the Word Table, the mark and the code added by the first n definitions
\* of tv, each body put at the mark the one before it left
RECURSIVE Layout(_, _, _, _)
Layout(tv, n, wa, lf) ==
    IF n = 0 THEN [wa |-> wa, lf |-> lf, code |-> <<>>]
    ELSE CHOOSE r \in
        { LET name == tv[Colons(tv)[n]].s
              tvc == Append(compile_token_vector(BodyOf(tv, Colons(tv)[n]), p.wa).tv, RET)
          IN [wa |-> [w \in DOMAIN p.wa \cup {name} |->
                         IF w = name THEN p.lf ELSE p.wa[w]],
              lf |-> p.lf + Len(tvc),
              code |-> p.code \o tvc] : p \in {Layout(tv, n - 1, wa, lf)} } : TRUE

\* C25: every definition of a call that compiles is its compiled body plus
\* RET, placed at the mark as the definition before it left it (the first
\* at the mark the call found), recorded under its name at that offset, and
\* the mark ends right after the last RET: the regions are adjacent and
\* nothing below the old mark is touched.
C25_CommitLayout ==
    entry.compiled =>
        LET tv == Tokens(src)
            L == Layout(tv, Len(Colons(tv)), entry.word_addresses, entry.last_function)
        IN /\ word_addresses = L.wa
           /\ last_function = L.lf
           /\ SubSeq(opcodes, entry.last_function + 1, last_function) = L.code
           /\ Below(opcodes, entry.last_function)
                  = Below(entry.opcodes, entry.last_function)
           /\ \A n \in DOMAIN word_addresses : word_addresses[n] < last_function
           /\ last_function > entry.last_function => opcodes[last_function] = RET

\* C25 witness: three definitions were added above earlier ones
C25_Witness ==
    /\ src = Redefinition /\ entry.compiled
    /\ entry.last_function > 0
    /\ word_addresses["B"] = entry.last_function + 2
    /\ word_addresses["A"] = entry.last_function + 5
    /\ last_function = entry.last_function + 7

\* the tokens after the last definition
ImmediateTokens(tv) == SubSeq(tv, PrevMark(tv, Len(tv) + 1) + 1, Len(tv))

\* the immediate-mode code of the last call
ImmediateCode ==
    Append(compile_token_vector(ImmediateTokens(Tokens(src)), word_addresses).tv, RET)

\* C26: after every execute_string call the image is the committed bodies
\* followed only by the immediate-mode code of that call, nothing of an
\* earlier call above the mark, and the bodies below the old mark untouched.
C26_OnlyLastImmediateCode ==
    entry.api = "execute_string" =>
        /\ Below(opcodes, entry.last_function) = Below(entry.opcodes, entry.last_function)
        /\ entry.compiled => ImmediateBody = ImmediateCode
        /\ ~entry.compiled => Len(opcodes) = last_function

\* C26 as the code has it: a run starts on the operand stack the call found
\* and no call touches the code below the mark; a call that compiles leaves the
\* bodies followed only by its own immediate-mode code; a rejected call
\* leaves the image as it was or cut back to the mark.
C26_ImageAfterCall ==
    entry.api = "execute_string" =>
        /\ (phase # "idle" /\ trace = <<>>) => number_stack = entry.number_stack
        /\ Below(opcodes, entry.last_function) = Below(entry.opcodes, entry.last_function)
        /\ last_function >= entry.last_function
        /\ entry.compiled => ImmediateBody = ImmediateCode
        /\ ~entry.compiled => (opcodes = entry.opcodes \/ Len(opcodes) = last_function)

\* C26 witness: the line `1 2 ADD` was run twice and has pushed 3 twice
C26_Witness ==
    /\ src = <<"1", "2", "ADD">> /\ calls = 2
    /\ entry.opcodes = opcodes
    /\ Returned /\ result = "Ok"
    /\ entry.number_stack # <<>> /\ Top(entry.number_stack) = 3
    /\ number_stack = Append(entry.number_stack, 3)

----------------------------------------------------------------------------
(* C31: an IF that no THEN closes *)

\* C31: an IF with no THEN is not detected: the segment compiles, the
\* deferred-if stack still holds one entry for every open IF when the
\* compile returns, and the placeholder of each open IF, and of each ELSE of
\* it, stays LDI 0 in the emitted code; so does the body of a definition
\* that leaves an IF open.
C31_UnclosedIfAccepted ==
    /\ (entry.api = "execute_string" /\ src \in UnclosedSources) =>
           LET seg == Tokens(src)
               open == OpenIfs(seg, Len(seg))
           IN /\ open # {}
              /\ entry.compiled /\ result # "InvalidSyntax"
              /\ Len(After(seg, Len(seg)).dis) = Cardinality(open)
              /\ \A i \in open :
                     /\ ImmediateBody[Loc(seg, i) + 1] = LDI(0)
                     /\ ImmediateBody[Loc(seg, i) + 2] = JRNZ
                     /\ \A e \in ElsesOf(seg, i, Len(seg)) :
                            /\ ImmediateBody[Loc(seg, e) + 1] = LDI(0)
                            /\ ImmediateBody[Loc(seg, e) + 2] = JR
    /\ (entry.api = "execute_string" /\ src = <<":", "C", "1", "IF", ";", "THEN">>) =>
           /\ "C" \in DOMAIN word_addresses
           /\ SubSeq(opcodes, word_addresses["C"] + 1, word_addresses["C"] + 4)
                  = <<LDI(1), LDI(0), JRNZ, RET>>

\* C31 witness: `0 IF 5 ELSE 6` was compiled and run with both placeholders
\* still 0
C31_Witness ==
    /\ src = <<"0", "IF", "5", "ELSE", "6">>
    /\ entry.compiled /\ phase # "running"
    /\ ImmediateBody = <<LDI(0), LDI(0), JRNZ, LDI(5), LDI(0), JR, LDI(6), RET>>

----------------------------------------------------------------------------
(* C32: how a run ends *)

\* C32: every run of execute ends with a value returned to the caller, Ok
\* or an error, never by aborting the host; DIV with a zero divisor (the
\* operand popped second) and ADD, SUB or MUL whose result leaves the range
\* of i64 end the run with an error returned.
C32_RunsReturnAValue ==
    /\ phase # "aborted"
    /\ result # "Panic"
    /\ (Returned /\ trace # <<>> /\ Len(entry.number_stack) >= 2
          /\ opcodes[trace[1] + 1] \in {ADD, SUB, MUL, DIV} /\ Len(trace) = 1) =>
           LET x == Operands(entry.number_stack).x
               y == Operands(entry.number_stack).y
               name == opcodes[trace[1] + 1].op
           IN ((name = "DIV" /\ y = 0) \/ (name # "DIV" /\ ~InI64(BinaryValue(name, x, y))))
                  => result \in {"UnkownError", "NumberStackUnderflow", "UnhandledTrap",
                                 "RanOutOfGas"}

----------------------------------------------------------------------------
(* C33: termination under a finite gas limit: specification SpecGas *)

\* machines without trap handlers: loops, recursion, calls, jumps, an
\* unhandled trap, an image the pc runs off
InitGas ==
    /\ InitVM
    /\ opcodes \in PlainImages \cup CallImages \cup JumpImages \cup TrapImages
    /\ trap_handlers = <<>>

\* the loop of execute has no blocking step: an iteration that can be taken
\* is taken
SpecGas == InitGas /\ [][NextVM]_vars /\ WF_vars(Step)

\* C33: under Limited(N) a run executes at most N + 1 opcodes and then
\* ends, whatever the image and the entry offset; only a run under Unlimited
\* is still going when the model stops counting.
C33_GasBoundsRun ==
    /\ [](gas_limit.limited => executed <= gas_limit.x + 1)
    /\ [](phase = "running" /\ executed = MaxSteps => ~gas_limit.limited)
    /\ (phase = "running" /\ gas_limit.limited) ~> (phase # "running")

\* C33 witness: the endless loop was stopped by the largest finite limit
\* after one opcode more than the limit
C33_Witness ==
    /\ opcodes = <<LDI(-1), JR>>
    /\ gas_limit = Limited(MaxGas)
    /\ Returned /\ result = "RanOutOfGas"
    /\ executed = MaxGas + 1

----------------------------------------------------------------------------
(* C34: the high-water mark *)

\* C34: after any sequence of execute_string calls, failed ones included,
\* the mark is not below the one the last call found, the image is not
\* shorter than the mark, every offset of the Word Table is strictly below
\* the mark, and when the mark is above 0 the opcode just below it is RET.
C34_MarkInvariants ==
    /\ last_function >= entry.last_function
    /\ Len(opcodes) >= last_function
    /\ \A n \in DOMAIN word_addresses :
           word_addresses[n] >= 0 /\ word_addresses[n] < last_function
    /\ last_function > 0 => opcodes[last_function] = RET

\* C34 witness: a call that failed after committing a definition moved the
\* mark above the definitions of the call before it
C34_Witness ==
    /\ calls = 2 /\ ~entry.compiled /\ phase = "idle"
    /\ entry.last_function > 0
    /\ last_function > entry.last_function
    /\ opcodes[last_function] = RET

----------------------------------------------------------------------------
(* C35: the return stack at the start of a run *)

\* C35: when a run starts the return stack is empty, also when the run
\* before it failed inside a called word, so the RET that ends the
\* immediate-mode body ends the run with Ok.
C35_ReturnStackEmptyAtStart ==
    /\ (phase = "running" /\ trace = <<>>) => return_stack = <<>>
    /\ (entry.api = "execute_string" /\ phase = "running" /\ FetchStep
          /\ pc = Len(opcodes) - 1 /\ Fetched = RET) => return_stack = <<>>

----------------------------------------------------------------------------
(* C36: the program counter at every fetch *)

\* every `:` is closed by `;` and every IF by THEN, in its own segment
WellFormed(words) ==
    /\ tokenize_string(words, 1, <<>>).err = ""
    /\ WellPaired(Tokens(words))
    /\ \A seg \in Segments(Tokens(words)) :
           Unmatched(seg) = {} /\ OpenIfs(seg, Len(seg)) = {}

\* C36: in the run of a well-formed source the pc is an index of the image
\* whenever an opcode is about to be fetched (stated for the first call on a
\* fresh compiler, the narrowest case of the claim).
C36_PcValidAtFetch ==
    (entry.api = "execute_string" /\ calls = 1 /\ WellFormed(src) /\ phase = "running") =>
        pc >= 0 /\ pc < Len(opcodes)

----------------------------------------------------------------------------
(* C37: a definition that is never closed *)

\* C37: when the last Colon of a token sequence has no SemiColon after it
\* (and nothing before it is in error) the call returns a syntax error
\* value; it does not abort the host, does not define the word, and runs
\* nothing.
C37_UnclosedColonRejected ==
    (Tokenized /\ Faults(Tokens(src)) = {} /\ OpenAt(Tokens(src), Len(Tokens(src)) + 1)) =>
        LET tv == Tokens(src)
            name == tv[PrevMark(tv, Len(tv) + 1)].s
        IN /\ phase = "idle"
           /\ result \in {"InvalidSyntax", "MissingSemicolonAfterColon"}
           /\ name \in DOMAIN word_addresses =>
                  /\ name \in DOMAIN entry.word_addresses
                  /\ word_addresses[name] = entry.word_addresses[name]
           /\ trace = <<>>

----------------------------------------------------------------------------
(* C38: every placeholder is patched *)

\* C38: when a segment in which every IF is closed by THEN has compiled,
\* the LDI emitted by every IF and every ELSE, a second ELSE of the same IF
\* included, carries a strictly positive offset whose target, counted from
\* the jump that follows it, is inside the segment or at its end.
C38_EveryPlaceholderPatched ==
    (entry.api = "execute_string" /\ src \in NestedProperly \cup {DoubleElse}
       /\ entry.compiled) =>
        LET seg == Tokens(src)
        IN \A j \in 1..Len(seg) :
               seg[j] \in {Command("IF"), Command("ELSE")} =>
                   LET ph == ImmediateBody[Loc(seg, j) + 1]
                   IN /\ ph.op = "LDI"
                      /\ ph.arg > 0
                      /\ Loc(seg, j) + 1 + ph.arg <= Len(ImmediateBody) - 1

----------------------------------------------------------------------------
(* C39: a definition whose body does not compile *)

\* the Colons whose definition is closed and whose body does not compile:
\* it uses a name unknown at that moment, or an ELSE or THEN with no IF open
FailingColons(tv, wa) ==
    {i \in 1..Len(tv) :
        /\ tv[i].type = "Colon"
        /\ \E k \in (i + 1)..Len(tv) : tv[k].type = "SemiColon"
        /\ \/ \E j \in UnknownAt(tv, wa) : PrevMark(tv, j) = i
           \/ Unmatched(BodyOf(tv, i)) # {}}

\* C39: when the body of a definition fails to compile, the call fails, the
\* name is neither added to the Word Table nor moved, the mark and the
\* table are as the definitions committed before it in the same call left
\* them, those definitions are in the image, and no opcode below the mark the
\* call found is changed.
C39_FailedBodyCommitsNothing ==
    (Tokenized /\ Faults(Tokens(src)) = {}
       /\ FailingColons(Tokens(src), entry.word_addresses) # {}) =>
        LET tv == Tokens(src)
            f == Least(FailingColons(tv, entry.word_addresses))
            before == Cardinality({i \in 1..(f - 1) : tv[i].type = "Colon"})
            L == Layout(tv, before, entry.word_addresses, entry.last_function)
        IN /\ ~entry.compiled
           /\ result \in {"UnknownToken", "InvalidSyntax"}
           /\ trace = <<>>
           /\ word_addresses = L.wa
           /\ tv[f].s \notin DOMAIN L.wa => tv[f].s \notin DOMAIN word_addresses
           /\ last_function = L.lf
           /\ Below(opcodes, last_function)
                  = Below(entry.opcodes, entry.last_function) \o L.code

\* C39 witness: after earlier definitions, `: C 1 ; : D ZZ ;` failed on ZZ
\* with C committed above them and D not defined
C39_Witness ==
    /\ src = <<":", "C", "1", ";", ":", "D", "ZZ", ";">>
    /\ result = "UnknownToken" /\ payload = "ZZ"
    /\ entry.last_function > 0
    /\ "C" \in DOMAIN word_addresses /\ word_addresses["C"] = entry.last_function
    /\ "D" \notin DOMAIN word_addresses
    /\ last_function = entry.last_function + 2

----------------------------------------------------------------------------
(* C40: calling a word and inlining its body *)

\* the loop of execute on an image of its own, without a gas limit, up to
\* fuel iterations (st0 is evaluated once, as st)
RECURSIVE RunFrom(_, _, _)
RunFrom(image, st0, fuel) ==
    CHOOSE r \in
        { IF st.done # "" \/ fuel = 0
          THEN st
          ELSE RunFrom(image, CHOOSE n \in LoopBody(image, st, <<>>, Unlimited) : TRUE,
                       fuel - 1) : st \in {st0} } : TRUE

\* the body B run directly in immediate mode on a fresh compiler whose
\* operand stack is `stack`
InlineOutcome(B, stack) ==
    RunFrom(Append(compile_token_vector(Tokens(B), <<>>).tv, RET),
            [number_stack |-> stack, return_stack |-> <<>>, pc |-> 0, gas_used |-> 0,
             done |-> "", consulted |-> <<>>],
            MaxSteps + 1)

\* C40: `: W B ; W` on a fresh compiler, given gas enough, ends with the
\* operand stack and the success or error kind that B run directly ends
\* with, for every operand stack the host primed, and the return stack is
\* empty after a successful run.
C40_CallEqualsInline ==
    \A B \in InlineBodies :
        (entry.api = "execute_string" /\ src = WordCall(B) /\ calls = 1
           /\ phase # "running" /\ Unmetered) =>
            LET o == InlineOutcome(B, entry.number_stack)
            IN o.done # "" =>
                   /\ result = ForthErrorFrom(o.done)
                   /\ number_stack = o.number_stack
                   /\ result = "Ok" => return_stack = <<>>

====
